---- MODULE Spec2Model ----
(***************************************************************************)
(* Model of the file encryption service: backend/server.js (the encrypt    *)
(* and decrypt routes, the blob layout and its bounds-checked parser) and  *)
(* frontend/script.js (the encrypt click handler and the page's storage).  *)
(*                                                                         *)
(* Buffers are sequences of bytes (0..255); JavaScript strings are         *)
(* sequences of code points.  Buffer offsets are 0-based as in the code.   *)
(***************************************************************************)
EXTENDS Integers, Sequences, FiniteSets, TLC

VARIABLES
    storage,        \* STORAGE_DIR: file id -> blob bytes
    origin,         \* history: id -> the upload and cipher output that produced the file
    route,          \* the route that handled the last request
    local,          \* the locals of a decrypt run past its validation
    res,            \* the response sent for the last request
    fileInput,      \* page: the chosen file (or NoFile)
    secretInput,    \* page: #secretInput.value
    decryptId,      \* page: #decryptId.value
    decryptSecret,  \* page: #decryptSecret.value
    localStore,     \* window.localStorage
    sessionStore,   \* window.sessionStorage
    statusDiv,      \* page: #status text
    handlers        \* encrypt click handlers suspended at their await

vars == <<storage, origin, route, local, res, fileInput, secretInput, decryptId,
          decryptSecret, localStore, sessionStore, statusDiv, handlers>>

serverVars == <<storage, origin, route, local, res>>
pageVars == <<fileInput, secretInput, decryptId, decryptSecret, localStore,
              sessionStore, statusDiv, handlers>>

----------------------------------------------------------------------------
(* Bounds of the model *)

MaxPlain == 2
MaxFiles == 1
MaxInFlight == 2

(* Field widths of the blob layout and of the cipher *)

SALT_LEN == 16
IV_LEN == 12
TAG_LEN == 16
KEY_LEN == 32
U32_LEN == 4

----------------------------------------------------------------------------
(* Bytes and strings *)

Min(a, b) == IF a < b THEN a ELSE b

\* bit k (0 = least significant) of byte b
BitOf(b, k) == (b \div (2 ^ k)) % 2

\* b with bit k inverted
FlipBitOf(b, k) == IF BitOf(b, k) = 1 THEN b - 2 ^ k ELSE b + 2 ^ k

\* bitwise exclusive or of two bytes
RECURSIVE XorBits(_, _, _)
XorBits(a, b, k) ==
    IF k = 8 THEN 0
    ELSE (IF BitOf(a, k) # BitOf(b, k) THEN 2 ^ k ELSE 0) + XorBits(a, b, k + 1)

Xor8(a, b) == XorBits(a, b, 0)

\* "..." literals of the code as code point sequences
StrTextPlain == <<116, 101, 120, 116, 47, 112, 108, 97, 105, 110>>
StrOctetStream ==
    <<97, 112, 112, 108, 105, 99, 97, 116, 105, 111, 110, 47,
      111, 99, 116, 101, 116, 45, 115, 116, 114, 101, 97, 109>>
StrFile == <<102, 105, 108, 101>>

\* Buffer.from(str, "utf8"): a lone surrogate is written as U+FFFD
RECURSIVE Utf8Encode(_)
Utf8Encode(s) ==
    IF s = <<>> THEN <<>>
    ELSE LET c == IF Head(s) \in 55296..57343 THEN 65533 ELSE Head(s)
             enc == IF c < 128 THEN <<c>>
                    ELSE IF c < 2048 THEN <<192 + (c \div 64), 128 + (c % 64)>>
                    ELSE IF c < 65536
                         THEN <<224 + (c \div 4096), 128 + ((c \div 64) % 64), 128 + (c % 64)>>
                    ELSE <<240 + (c \div 262144), 128 + ((c \div 4096) % 64),
                           128 + ((c \div 64) % 64), 128 + (c % 64)>>
         IN enc \o Utf8Encode(Tail(s))

IsCont(b, i, lo, hi) == i <= Len(b) /\ b[i] >= lo /\ b[i] <= hi

\* buf.toString("utf8"): never throws; every maximal ill-formed subsequence
\* is replaced by U+FFFD (65533)
RECURSIVE Utf8DecodeFrom(_, _)
Utf8DecodeFrom(b, i) ==
    IF i > Len(b) THEN <<>>
    ELSE LET b0 == b[i] IN
      IF b0 < 128 THEN <<b0>> \o Utf8DecodeFrom(b, i + 1)
      ELSE IF b0 >= 194 /\ b0 <= 223 THEN
        IF IsCont(b, i + 1, 128, 191)
        THEN <<(b0 - 192) * 64 + (b[i + 1] - 128)>> \o Utf8DecodeFrom(b, i + 2)
        ELSE <<65533>> \o Utf8DecodeFrom(b, i + 1)
      ELSE IF b0 >= 224 /\ b0 <= 239 THEN
        LET lo == IF b0 = 224 THEN 160 ELSE 128
            hi == IF b0 = 237 THEN 159 ELSE 191
        IN IF ~IsCont(b, i + 1, lo, hi) THEN <<65533>> \o Utf8DecodeFrom(b, i + 1)
           ELSE IF ~IsCont(b, i + 2, 128, 191) THEN <<65533>> \o Utf8DecodeFrom(b, i + 2)
           ELSE <<(b0 - 224) * 4096 + (b[i + 1] - 128) * 64 + (b[i + 2] - 128)>>
                \o Utf8DecodeFrom(b, i + 3)
      ELSE IF b0 >= 240 /\ b0 <= 244 THEN
        LET lo == IF b0 = 240 THEN 144 ELSE 128
            hi == IF b0 = 244 THEN 143 ELSE 191
        IN IF ~IsCont(b, i + 1, lo, hi) THEN <<65533>> \o Utf8DecodeFrom(b, i + 1)
           ELSE IF ~IsCont(b, i + 2, 128, 191) THEN <<65533>> \o Utf8DecodeFrom(b, i + 2)
           ELSE IF ~IsCont(b, i + 3, 128, 191) THEN <<65533>> \o Utf8DecodeFrom(b, i + 3)
           ELSE <<(b0 - 240) * 262144 + (b[i + 1] - 128) * 4096
                  + (b[i + 2] - 128) * 64 + (b[i + 3] - 128)>>
                \o Utf8DecodeFrom(b, i + 4)
      ELSE <<65533>> \o Utf8DecodeFrom(b, i + 1)

Utf8Decode(b) == Utf8DecodeFrom(b, 1)

\* whether the bytes are well-formed UTF-8 (decoding substitutes nothing)
IsValidUtf8(b) == Utf8Encode(Utf8Decode(b)) = b

----------------------------------------------------------------------------
(* Buffer primitives *)

\* buf.subarray(start, end): both indices are clamped to the buffer
subarray(buf, start, end) ==
    SubSeq(buf, Min(start, Len(buf)) + 1, Min(end, Len(buf)))

\* writeUInt32LE(n): four bytes, least significant first
writeUInt32LE(n) ==
    <<n % 256, (n \div 256) % 256, (n \div 65536) % 256, (n \div 16777216) % 256>>

\* A JavaScript number too wide for the checker's integers is kept as two
\* 16-bit limbs, value = 65536 * hi + lo; sums and comparisons on it are exact.
Wide(hi, lo) == [hi |-> hi, lo |-> lo]
WideOf(n) == Wide(n \div 65536, n % 65536)
WideAdd(w, n) == Wide(w.hi + ((w.lo + n) \div 65536), (w.lo + n) % 65536)
WideGreater(w, n) ==
    \/ w.hi > (n \div 65536)
    \/ w.hi = (n \div 65536) /\ w.lo > (n % 65536)
NarrowOf(w) == 65536 * w.hi + w.lo

\* readUInt32LE(buf, offset), for offset + 4 <= buf.length
readUInt32LE(buf, offset) ==
    Wide(buf[offset + 3] + 256 * buf[offset + 4], buf[offset + 1] + 256 * buf[offset + 2])

----------------------------------------------------------------------------
(* Crypto helpers.  scrypt and AES-256-GCM are library code; they are       *)
(* modelled by keyed byte functions with the properties the routes rely on: *)
(* derivation is deterministic, the cipher is a stream cipher (ciphertext   *)
(* = plaintext xor keystream, same length) and the tag depends on the key,  *)
(* the nonce and every ciphertext byte and the ciphertext length.           *)

At(seq, i) == seq[((i - 1) % Len(seq)) + 1]

\* crypto.scryptSync(secret, salt, 32)
deriveKey(secret, salt) ==
    LET sb == Utf8Encode(secret) IN
    [i \in 1..KEY_LEN |->
        (At(salt, i) + (IF sb = <<>> THEN 0 ELSE 31 * At(sb, i)) + i * Len(sb)) % 256]

\* the AES-CTR keystream byte that covers byte j of the text
KeyStream(key, iv, j) == (3 * At(key, j) + At(iv, j) + 17 * j) % 256

\* cipher.update / decipher.update: xor with the keystream
StreamXor(key, iv, buf) == [j \in 1..Len(buf) |-> Xor8(buf[j], KeyStream(key, iv, j))]

RECURSIVE WeightedSum(_, _, _)
WeightedSum(ct, i, j) ==
    IF j > Len(ct) THEN 0
    ELSE ((2 * (i + j) + 1) * ct[j] + WeightedSum(ct, i, j + 1)) % 256

\* cipher.getAuthTag(): 16 bytes over key, nonce and ciphertext
GcmTag(key, iv, ct) ==
    [i \in 1..TAG_LEN |->
        (key[i] + 2 * key[i + 16] + 5 * At(iv, i) + 7 * Len(ct) + WeightedSum(ct, i, 1)) % 256]

\* encryptBuffer(buf, secret); salt and iv are the two crypto.randomBytes results
encryptBuffer(buf, secret, salt, iv) ==
    LET key == deriveKey(secret, salt)
        ciphertext == StreamXor(key, iv, buf)
    IN [ciphertext |-> ciphertext, iv |-> iv,
        authTag |-> GcmTag(key, iv, ciphertext), salt |-> salt]

AuthError == "Unsupported state or unable to authenticate data"

\* decipher.final() without the tag comparison (the cipher in a mode that
\* authenticates nothing)
decryptBufferUnchecked(payload, secret) ==
    LET key == deriveKey(secret, payload.salt)
    IN [ok |-> TRUE, plain |-> StreamXor(key, payload.iv, payload.ciphertext)]

\* decryptBuffer(payload, secret): decipher.final() throws unless the tag verifies
decryptBuffer(payload, secret) ==
    LET key == deriveKey(secret, payload.salt)
    IN IF GcmTag(key, payload.iv, payload.ciphertext) = payload.authTag
       THEN [ok |-> TRUE, plain |-> StreamXor(key, payload.iv, payload.ciphertext)]
       ELSE [ok |-> FALSE, plain |-> <<>>]

----------------------------------------------------------------------------
(* Blob layout: [salt16][iv12][tag16][nameLen4][name][mimeLen4][mime][ciphertext] *)

\* the header and blob built by the encrypt route
SerializeBlob(enc, originalname, mimetype) ==
    LET nameBuf == Utf8Encode(originalname)
        mimeBuf == Utf8Encode(IF mimetype = <<>> THEN StrOctetStream ELSE mimetype)
        header == enc.salt \o enc.iv \o enc.authTag \o writeUInt32LE(Len(nameBuf))
                  \o nameBuf \o writeUInt32LE(Len(mimeBuf)) \o mimeBuf
    IN header \o enc.ciphertext

ErrTruncated == "truncated header"
ErrMissing == "missing ciphertext"
ErrRange == "ERR_OUT_OF_RANGE"
NoError == "none"

\* need(n) of the decrypt route without the cursor: compares n alone with the length
needNoOffset(n, offset, length) == ~WideGreater(n, length)

\* need(n) of the decrypt route with >= for >: a field that ends at the end of
\* the blob is refused
needOffByOne(n, offset, length) == ~WideGreater(WideAdd(n, offset + 1), length)

\* need(n) of the decrypt route: TRUE when it returns, FALSE when it throws
need(n, offset, length) == ~WideGreater(WideAdd(n, offset), length)

\* The fields the parser reads, in order; the two variable fields take the
\* length read just before them
FieldNames == <<"salt", "iv", "authTag", "nameLen", "name", "mimeLen", "mime">>
IsLengthField(step) == step \in {4, 6}
FieldWidth(st, step) ==
    CASE step = 1 -> WideOf(SALT_LEN)
      [] step = 2 -> WideOf(IV_LEN)
      [] step = 3 -> WideOf(TAG_LEN)
      [] step \in {4, 6} -> WideOf(U32_LEN)
      [] step \in {5, 7} -> st.len

\* One parser step: need(n), then the read of n bytes at the cursor, then
\* offset += n.  st = [offset, reads, bounds, len, thrown, refused]; the read
\* is recorded as asked for.  readUInt32LE throws a RangeError when its four
\* bytes are not all inside the buffer.
Advance(st, blob, step) ==
    LET n == FieldWidth(st, step) IN
    IF ~need(n, st.offset, Len(blob))
    THEN [st EXCEPT !.thrown = ErrTruncated, !.refused = <<st.offset, n>>]
    ELSE LET read == [st EXCEPT !.reads = Append(st.reads, <<st.offset, NarrowOf(n)>>)] IN
         IF IsLengthField(step) /\ st.offset + U32_LEN > Len(blob)
         THEN [read EXCEPT !.thrown = ErrRange]
         ELSE [read EXCEPT
                 !.offset = st.offset + NarrowOf(n),
                 !.bounds = Append(st.bounds, <<st.offset, st.offset + NarrowOf(n)>>),
                 !.len = IF IsLengthField(step) THEN readUInt32LE(blob, st.offset)
                         ELSE st.len]

\* the parser steps from `step` on, until one throws
RECURSIVE ParseSteps(_, _, _)
ParseSteps(st, blob, step) ==
    IF step > Len(FieldNames) \/ st.thrown # NoError THEN st
    ELSE ParseSteps(Advance(st, blob, step), blob, step + 1)

\* the field read at parser step `step`
FieldBytes(st, blob, step) == subarray(blob, st.bounds[step][1], st.bounds[step][2])

\* the parse of the decrypt route, from `let offset = 0` to the ciphertext check
ParseBlob(blob) ==
    LET st == ParseSteps([offset |-> 0, reads |-> <<>>, bounds |-> <<>>,
                          len |-> Wide(0, 0), thrown |-> NoError, refused |-> <<>>],
                         blob, 1)
    IN IF st.thrown # NoError
       THEN [thrown |-> st.thrown, reads |-> st.reads, refused |-> st.refused,
             fields |-> <<>>]
       ELSE [thrown |-> IF st.offset >= Len(blob) THEN ErrMissing ELSE NoError,
             reads |-> st.reads,
             refused |-> st.refused,
             fields |-> [salt |-> FieldBytes(st, blob, 1),
                         iv |-> FieldBytes(st, blob, 2),
                         authTag |-> FieldBytes(st, blob, 3),
                         name |-> Utf8Decode(FieldBytes(st, blob, 5)),
                         mime |-> Utf8Decode(FieldBytes(st, blob, 7)),
                         nameBytes |-> FieldBytes(st, blob, 5),
                         mimeBytes |-> FieldBytes(st, blob, 7),
                         ciphertext |-> subarray(blob, st.offset, Len(blob))]]

----------------------------------------------------------------------------
(* Inputs *)

Secrets == {<<97>>, <<98>>}                  \* "a", "b"
NoSecret == <<>>                             \* "" (or a missing field)
Names == {<<110, 233>>}                      \* "né"
Mimes == {<<>>, StrTextPlain}
PlainBytes == {104}
Plaintexts == UNION {[1..n -> PlainBytes] : n \in 0..MaxPlain}
Files == [originalname : Names, mimetype : Mimes, buffer : Plaintexts]
NoFile == [absent |-> TRUE]

\* the files picked on the page
PageFiles == {[originalname |-> <<110, 233>>, mimetype |-> StrTextPlain, buffer |-> <<104>>]}

\* the values crypto.randomBytes may return
Salts == {[i \in 1..SALT_LEN |-> (17 * i) % 256]}
Ivs == {[i \in 1..IV_LEN |-> (29 * i + 3) % 256]}

\* the ids crypto.randomUUID() + ".bin" may return; NoId is "" (or a missing field)
Ids == 1..MaxFiles
NoId == 0

Zeros(n) == [i \in 1..n |-> 0]

\* files an attacker with write access to the storage directory may craft
ForgedBlobs == {
    <<>>,
    Zeros(10),
    Zeros(44) \o <<232, 3, 0, 0>> \o Zeros(5),
    Zeros(44) \o <<255, 255, 255, 255>> \o Zeros(3),
    Zeros(44) \o <<0, 0, 1, 0>> \o Zeros(3),
    Zeros(44) \o <<0, 0, 0, 0>> \o <<255, 255, 255, 255>> \o Zeros(2),
    Zeros(44) \o <<1, 0, 0, 0>> \o <<255>> \o <<0, 0, 0, 0>> \o <<7>>,
    Zeros(44) \o <<1, 0, 0, 0>> \o <<110>> \o <<2, 0, 0, 0>> \o <<195, 40>> \o <<7>>,
    Zeros(44) \o <<0, 0, 0, 0>> \o <<0, 0, 0, 0>>,
    Zeros(46)
}

----------------------------------------------------------------------------
(* Server routes *)

NoLocal == [id |-> NoId, secret |-> NoSecret, blob |-> <<>>, reads |-> <<>>, refused |-> <<>>, parsed |-> <<>>,
            thrown |-> NoError, decrypted |-> FALSE]

Extend(f, k, v) == [x \in DOMAIN f \cup {k} |-> IF x = k THEN v ELSE f[x]]

\* POST /api/encrypt, the validation at its head
EncryptRejects(file, secret) == file = NoFile \/ secret = NoSecret

\* POST /api/encrypt, from encryptBuffer to the blob written to storage
EncryptBlob(file, secret, salt, iv) ==
    SerializeBlob(encryptBuffer(file.buffer, secret, salt, iv),
                  file.originalname, file.mimetype)

\* the catch block of POST /api/decrypt, which discards the error caught
DecryptFailureLeaky(thrown) == [status |-> 400, error |-> thrown]

\* the catch block of POST /api/decrypt
DecryptFailure(thrown) ==
    [status |-> 400, error |-> "decryption failed (wrong secret or corrupt data)"]

\* POST /api/decrypt: the locals of the run and the response sent
DecryptRoute(store, id, secret) ==
    IF id = NoId \/ secret = NoSecret
    THEN [local |-> NoLocal, res |-> [status |-> 400, error |-> "id and secret required"]]
    ELSE IF id \notin DOMAIN store
    THEN [local |-> NoLocal, res |-> [status |-> 404, error |-> "not found"]]
    ELSE
      LET blob == store[id]
          p == ParseBlob(blob)
          d == decryptBuffer(p.fields, secret)
          reached == p.thrown = NoError
          thrown == IF ~reached THEN p.thrown
                    ELSE IF ~d.ok THEN AuthError ELSE NoError
          loc == [id |-> id, secret |-> secret, blob |-> blob, reads |-> p.reads, refused |-> p.refused,
                  parsed |-> IF reached THEN p.fields ELSE <<>>,
                  thrown |-> thrown, decrypted |-> reached]
      IN IF thrown # NoError
         THEN [local |-> loc, res |-> DecryptFailure(thrown)]
         ELSE [local |-> loc,
               res |-> [status |-> 200,
                        contentType |-> IF p.fields.mime = <<>> THEN StrOctetStream
                                        ELSE p.fields.mime,
                        filename |-> IF p.fields.name = <<>> THEN StrFile
                                     ELSE p.fields.name,
                        body |-> d.plain]]

----------------------------------------------------------------------------
(* Initial state: an empty storage directory and a freshly loaded page *)

\* storage.getItem of a key never set; a key of localStore never set holds
\* NoId or NoSecret, which the page treats like null
Null == "null"

Init ==
    /\ storage = <<>>
    /\ origin = <<>>
    /\ route = "none"
    /\ local = NoLocal
    /\ res = [status |-> 0]
    /\ fileInput = NoFile
    /\ secretInput = NoSecret
    /\ decryptId = NoId
    /\ decryptSecret = NoSecret
    /\ localStore = [lastCipherId |-> NoId, lastSecret |-> NoSecret]
    /\ sessionStore = [encrypting |-> Null]
    /\ statusDiv = ""
    /\ handlers = {}

----------------------------------------------------------------------------
(* Requests sent to the server by any HTTP client *)

\* the requests a client may send to POST /api/encrypt: <<file, secret>>
EncryptRequests == (Files \cup {NoFile}) \X (Secrets \cup {NoSecret})

\* POST /api/encrypt answered 400: the request carries no file or no secret
\* (every such request has the same effect)
EncryptInvalid ==
    /\ {r \in EncryptRequests : EncryptRejects(r[1], r[2])} # {}
    /\ route' = "encrypt"
    /\ local' = NoLocal
    /\ res' = [status |-> 400, error |-> "file and secret required"]
    /\ UNCHANGED <<storage, origin>>
    /\ UNCHANGED pageVars

\* POST /api/encrypt answered with the id of the file written
EncryptRouteStore(file, secret, salt, iv, id) ==
    /\ ~EncryptRejects(file, secret)
    /\ id \notin DOMAIN storage
    /\ LET blob == EncryptBlob(file, secret, salt, iv) IN
         /\ storage' = Extend(storage, id, blob)
         /\ origin' = Extend(origin, id, [file |-> file, secret |-> secret,
                                         enc |-> encryptBuffer(file.buffer, secret, salt, iv),
                                         blob |-> blob])
    /\ route' = "encrypt"
    /\ local' = NoLocal
    /\ res' = [status |-> 200, id |-> id, originalName |-> file.originalname,
               size |-> Len(file.buffer)]

\* POST /api/encrypt answered 500: fs.writeFileSync threw and nothing was stored
EncryptRouteIoError ==
    /\ route' = "encrypt"
    /\ local' = NoLocal
    /\ res' = [status |-> 500, error |-> "encryption failed"]
    /\ UNCHANGED <<storage, origin>>

EncryptStore(file, secret, salt, iv, id) ==
    EncryptRouteStore(file, secret, salt, iv, id) /\ UNCHANGED pageVars

EncryptIoError ==
    /\ {r \in EncryptRequests : ~EncryptRejects(r[1], r[2])} # {}
    /\ EncryptRouteIoError
    /\ UNCHANGED pageVars

\* POST /api/decrypt
Decrypt(id, secret) ==
    /\ LET r == DecryptRoute(storage, id, secret) IN
         /\ local' = r.local
         /\ res' = r.res
    /\ route' = "decrypt"
    /\ UNCHANGED <<storage, origin>>
    /\ UNCHANGED pageVars

----------------------------------------------------------------------------
(* The storage directory is a directory of plain files: they can be cut    *)
(* short or altered behind the server's back.                              *)

Pristine(id) == id \in DOMAIN origin /\ storage[id] = origin[id].blob

\* a stored blob is cut to a proper prefix
Truncate(id) ==
    /\ id \in DOMAIN storage
    /\ Pristine(id)
    /\ \E k \in 0..(Len(storage[id]) - 1) :
           storage' = [storage EXCEPT ![id] = SubSeq(storage[id], 1, k)]
    /\ UNCHANGED <<origin, route, local, res>>
    /\ UNCHANGED pageVars

\* one bit of a stored blob is inverted (pos is a 0-based byte offset)
FlipBit(id) ==
    /\ id \in DOMAIN storage
    /\ Pristine(id)
    /\ \E pos \in 0..(Len(storage[id]) - 1), bit \in 0..7 :
           storage' = [storage EXCEPT ![id][pos + 1] = FlipBitOf(storage[id][pos + 1], bit)]
    /\ UNCHANGED <<origin, route, local, res>>
    /\ UNCHANGED pageVars

\* a crafted file is put into the storage directory
Forge(id, blob) ==
    /\ id \notin DOMAIN storage
    /\ storage' = Extend(storage, id, blob)
    /\ UNCHANGED <<origin, route, local, res>>
    /\ UNCHANGED pageVars

Next ==
    \/ EncryptInvalid
    \/ \E file \in Files, secret \in Secrets, salt \in Salts, iv \in Ivs, id \in Ids :
           DOMAIN storage = {} /\ EncryptStore(file, secret, salt, iv, id)
    \/ EncryptIoError
    \/ \E id \in Ids \cup {NoId}, secret \in Secrets \cup {NoSecret} : Decrypt(id, secret)
    \/ \E id \in Ids : Truncate(id)
    \/ \E id \in Ids : FlipBit(id)
    \/ \E id \in Ids, blob \in ForgedBlobs : DOMAIN storage = {} /\ Forge(id, blob)

Spec == Init /\ [][Next]_vars

----------------------------------------------------------------------------
(* The page (frontend/script.js) *)

\* a file is picked in #fileInput
ChooseFile(file) ==
    /\ fileInput' = file
    /\ UNCHANGED <<secretInput, decryptId, decryptSecret, localStore, sessionStore,
                   statusDiv, handlers>>
    /\ UNCHANGED serverVars

\* a passphrase is typed into #secretInput
TypeSecret(secret) ==
    /\ secretInput' = secret
    /\ UNCHANGED <<fileInput, decryptId, decryptSecret, localStore, sessionStore,
                   statusDiv, handlers>>
    /\ UNCHANGED serverVars

\* encryptBtn click with no file or no secret: the handler returns at once
EncryptClickEmpty ==
    /\ fileInput = NoFile \/ secretInput = NoSecret
    /\ statusDiv' = "Choose file and enter secret"
    /\ UNCHANGED <<fileInput, secretInput, decryptId, decryptSecret, localStore,
                   sessionStore, handlers>>
    /\ UNCHANGED serverVars

\* encryptBtn click: the handler up to its `await fetch(...)`
EncryptClick(h) ==
    /\ ~(fileInput = NoFile \/ secretInput = NoSecret)
    /\ h \notin {x.h : x \in handlers}
    /\ \A g \in 1..(h - 1) : g \in {x.h : x \in handlers}
    /\ sessionStore' = [sessionStore EXCEPT !.encrypting = "1"]
    /\ statusDiv' = "Encrypting & uploading..."
    /\ handlers' = handlers \cup
           {[h |-> h, file |-> fileInput, secret |-> secretInput, stage |-> "sent",
             data |-> [status |-> 0]]}
    /\ UNCHANGED <<fileInput, secretInput, decryptId, decryptSecret, localStore>>
    /\ UNCHANGED serverVars

\* what the server's answer does to the request x: a live handler gets the
\* response, a request whose page is gone (keepalive) is dropped
Answered(x) ==
    IF x.stage = "orphan" THEN handlers \ {x}
    ELSE (handlers \ {x}) \cup {[x EXCEPT !.stage = "answered", !.data = res']}

\* the server handles a request sent by the page and stores the file
ServeEncryptStore(x, salt, iv, id) ==
    /\ x \in handlers
    /\ x.stage \in {"sent", "orphan"}
    /\ EncryptRouteStore(x.file, x.secret, salt, iv, id)
    /\ handlers' = Answered(x)
    /\ UNCHANGED <<fileInput, secretInput, decryptId, decryptSecret, localStore,
                   sessionStore, statusDiv>>

\* the server handles a request sent by the page and answers 500
ServeEncryptIoError(x) ==
    /\ x \in handlers
    /\ x.stage \in {"sent", "orphan"}
    /\ ~EncryptRejects(x.file, x.secret)
    /\ EncryptRouteIoError
    /\ handlers' = Answered(x)
    /\ UNCHANGED <<fileInput, secretInput, decryptId, decryptSecret, localStore,
                   sessionStore, statusDiv>>

\* fetch rejects (the server is unreachable): catch, then finally
FetchRejects(x) ==
    /\ x \in handlers
    /\ x.stage = "sent"
    /\ statusDiv' = "Encryption failed"
    /\ sessionStore' = [sessionStore EXCEPT !.encrypting = "0"]
    /\ handlers' = handlers \ {x}
    /\ UNCHANGED <<fileInput, secretInput, decryptId, decryptSecret, localStore>>
    /\ UNCHANGED serverVars

\* the handler resumes with a 200 answer: the id and the secret are persisted
EncryptResumeOk(x) ==
    /\ x \in handlers
    /\ x.stage = "answered"
    /\ x.data.status = 200
    /\ decryptId' = x.data.id
    /\ decryptSecret' = x.secret
    /\ localStore' = [lastCipherId |-> x.data.id, lastSecret |-> x.secret]
    /\ statusDiv' = ""
    /\ sessionStore' = [sessionStore EXCEPT !.encrypting = "0"]
    /\ handlers' = handlers \ {x}
    /\ UNCHANGED <<fileInput, secretInput>>
    /\ UNCHANGED serverVars

\* the handler resumes with an error answer: throw, catch, then finally
EncryptResumeError(x) ==
    /\ x \in handlers
    /\ x.stage = "answered"
    /\ x.data.status # 200
    /\ statusDiv' = "Encryption failed"
    /\ sessionStore' = [sessionStore EXCEPT !.encrypting = "0"]
    /\ handlers' = handlers \ {x}
    /\ UNCHANGED <<fileInput, secretInput, decryptId, decryptSecret, localStore>>
    /\ UNCHANGED serverVars

\* decryptBtn click: POST /api/decrypt with the two decrypt fields
DecryptClick ==
    /\ LET r == DecryptRoute(storage, decryptId, decryptSecret) IN
         /\ local' = r.local
         /\ res' = r.res
    /\ route' = "decrypt"
    /\ UNCHANGED <<storage, origin>>
    /\ UNCHANGED pageVars

\* the beforeunload listener: TRUE when it asks the browser to keep the page
BeforeUnloadBlocks == sessionStore.encrypting = "1"

\* the page is reloaded (when the listener objects, the browser asks and the
\* user may stay or leave); the DOMContentLoaded listener then restores the
\* last id and secret
Reload(leave) ==
    /\ BeforeUnloadBlocks => leave
    /\ fileInput' = NoFile
    /\ secretInput' = NoSecret
    /\ statusDiv' = ""
    /\ decryptId' = localStore.lastCipherId
    /\ decryptSecret' = localStore.lastSecret
    /\ handlers' = {[x EXCEPT !.stage = "orphan"] : x \in {y \in handlers : y.stage # "answered"}}
    /\ UNCHANGED <<localStore, sessionStore>>
    /\ UNCHANGED serverVars

NextPage ==
    \/ \E file \in PageFiles : ChooseFile(file)
    \/ \E secret \in Secrets \cup {NoSecret} : TypeSecret(secret)
    \/ EncryptClickEmpty
    \/ \E h \in 1..MaxInFlight : EncryptClick(h)
    \/ \E x \in handlers, salt \in Salts, iv \in Ivs, id \in Ids :
           ServeEncryptStore(x, salt, iv, id)
    \/ \E x \in handlers : ServeEncryptIoError(x)
    \/ \E x \in handlers : FetchRejects(x)
    \/ \E x \in handlers : EncryptResumeOk(x)
    \/ \E x \in handlers : EncryptResumeError(x)
    \/ DecryptClick
    \/ \E leave \in BOOLEAN : Reload(leave)

SpecPage == Init /\ [][NextPage]_vars

----------------------------------------------------------------------------
(* Properties *)

\* the last request was a decrypt that got past validation and read a blob
DecryptRan == route = "decrypt" /\ local.id # NoId

\* ... of a file an upload wrote
ReadUploaded == DecryptRan /\ local.id \in DOMAIN origin

\* ... and the blob it read was exactly what the upload wrote
ReadPristine == ReadUploaded /\ local.blob = origin[local.id].blob

Uploaded == origin[local.id]

\* the media type the encrypt route stores for a file
StoredMime(file) == IF file.mimetype = <<>> THEN StrOctetStream ELSE file.mimetype

\* offset of the ciphertext in the blob of an upload
HeaderLen(up) == Len(up.blob) - Len(up.enc.ciphertext)

IsProperPrefix(a, b) == Len(a) < Len(b) /\ a = SubSeq(b, 1, Len(a))

\* a and b differ in exactly the byte at 0-based offset pos, and there in one bit
FlippedAt(a, b, pos) ==
    /\ Len(a) = Len(b)
    /\ pos < Len(b)
    /\ a[pos + 1] # b[pos + 1]
    /\ \E bit \in 0..7 : a = [b EXCEPT ![pos + 1] = FlipBitOf(b[pos + 1], bit)]

UniformFailure == [status |-> 400, error |-> "decryption failed (wrong secret or corrupt data)"]

\* C1: a file the encrypt route accepted and stored is returned by the decrypt
\* route, given its id and the same passphrase, with status 200, the original
\* bytes, the stored filename and the stored media type
RoundTrip ==
    (ReadPristine /\ local.secret = Uploaded.secret) =>
        /\ res.status = 200
        /\ res.body = Uploaded.file.buffer
        /\ res.filename = Uploaded.file.originalname
        /\ res.contentType = StoredMime(Uploaded.file)

NoOutOfBoundsRead ==
    DecryptRan =>
        /\ \A i \in 1..Len(local.reads) :
               local.reads[i][1] + local.reads[i][2] <= Len(local.blob)
        /\ local.thrown = ErrTruncated =>
               /\ local.refused # <<>>
               /\ WideGreater(WideAdd(local.refused[2], local.refused[1]), Len(local.blob))
        /\ local.thrown # ErrRange

\* C3 witness: a blob whose nameLen field holds 2^32 - 1 was read, and the
\* parser stopped at need(nameLen) after its four in-range reads
HugeLengthRefused ==
    /\ DecryptRan
    /\ local.thrown = ErrTruncated
    /\ local.refused # <<>>
    /\ local.refused[2] = Wide(65535, 65535)
    /\ Len(local.reads) = 4

\* C4: a blob written for passphrase s1 never decrypts with s2 # s1:
\* decryptBuffer rejects the tag for every other passphrase, and the decrypt
\* route answers the failure, with the authentication error whenever it got
\* as far as decryptBuffer
WrongPassphraseFails ==
    /\ \A id \in DOMAIN origin : \A s \in Secrets :
           s # origin[id].secret => ~decryptBuffer(origin[id].enc, s).ok
    /\ (ReadPristine /\ local.secret # Uploaded.secret) =>
           /\ res = UniformFailure
           /\ local.thrown # NoError
           /\ local.decrypted => local.thrown = AuthError

\* C4 witness: an untouched blob was decrypted with another passphrase and
\* decryptBuffer threw
WrongPassphraseSeen ==
    /\ ReadPristine
    /\ local.secret # Uploaded.secret
    /\ local.decrypted
    /\ local.thrown = AuthError

\* the tag field (bytes 28..43) and the ciphertext of an upload's blob
InTagOrCiphertext(up, pos) ==
    \/ pos >= SALT_LEN + IV_LEN /\ pos < SALT_LEN + IV_LEN + TAG_LEN
    \/ pos >= HeaderLen(up)

\* C5: for a stored blob with ciphertext, one inverted bit in the tag field or
\* in the ciphertext makes the decrypt route, given the right passphrase, fail
\* at the tag check; no plaintext is returned
TamperDetected ==
    (/\ ReadUploaded
     /\ local.secret = Uploaded.secret
     /\ Len(Uploaded.enc.ciphertext) > 0) =>
        \A pos \in 0..(Len(Uploaded.blob) - 1) :
            (/\ InTagOrCiphertext(Uploaded, pos)
             /\ FlippedAt(local.blob, Uploaded.blob, pos)) =>
                /\ local.decrypted
                /\ local.thrown = AuthError
                /\ res = UniformFailure

\* C5 witness: a blob with one ciphertext bit inverted was decrypted with the
\* right passphrase and decryptBuffer threw
TamperedCiphertextSeen ==
    /\ ReadUploaded
    /\ local.secret = Uploaded.secret
    /\ \E pos \in 0..(Len(Uploaded.blob) - 1) :
        /\ pos >= HeaderLen(Uploaded)
        /\ FlippedAt(local.blob, Uploaded.blob, pos)
        /\ local.thrown = AuthError

\* C6: parsing a blob the encrypt route built returns the six fields it was
\* built from, for a ciphertext of any length
FramingRoundTrip ==
    ReadPristine =>
        /\ local.parsed # <<>>
        /\ local.parsed.salt = Uploaded.enc.salt
        /\ local.parsed.iv = Uploaded.enc.iv
        /\ local.parsed.authTag = Uploaded.enc.authTag
        /\ local.parsed.name = Uploaded.file.originalname
        /\ local.parsed.mime = StoredMime(Uploaded.file)
        /\ local.parsed.ciphertext = Uploaded.enc.ciphertext

ErrInvalidMetadata == "invalid metadata"

\* C7: when the name or mime bytes of a blob are fully present and are not
\* valid UTF-8, the decrypt route fails with an invalid-metadata error and
\* does not go on to decryption
InvalidMetadataRejected ==
    LET p == ParseBlob(local.blob) IN
    (/\ DecryptRan
     /\ p.fields # <<>>
     /\ ~(IsValidUtf8(p.fields.nameBytes) /\ IsValidUtf8(p.fields.mimeBytes))) =>
        /\ local.thrown = ErrInvalidMetadata
        /\ ~local.decrypted

\* C8: whichever check of the decrypt route fails on a stored blob, the
\* caller gets the same status and the same body
UniformFailureResponse ==
    (DecryptRan /\ local.thrown # NoError) => res = UniformFailure

\* C8 witness: a decrypt run failed in the parser (not at the tag check) and
\* was answered with the common failure response
ParserFailureAnswered ==
    /\ DecryptRan
    /\ local.thrown = ErrMissing
    /\ res = UniformFailure

\* C9: no store of the system holds a passphrase: not localStorage, not
\* sessionStorage, not the name or media type field of a stored blob
PassphraseNeverStored ==
    /\ localStore.lastSecret \notin Secrets
    /\ sessionStore.encrypting \in {Null, "0", "1"}
    /\ \A id \in DOMAIN storage : \A s \in Secrets :
           LET p == ParseBlob(storage[id]) IN
           p.fields # <<>> =>
               p.fields.nameBytes # Utf8Encode(s) /\ p.fields.mimeBytes # Utf8Encode(s)

\* the encrypt requests of the page that are still in flight
InFlight == {x \in handlers : x.stage \in {"sent", "answered"}}

\* C10: while an encrypt request of the page is in flight the sessionStorage
\* flag is "1", and once none is in flight the flag is "0"
NavigationGuard ==
    /\ InFlight # {} => sessionStore.encrypting = "1"
    /\ (handlers = {} /\ sessionStore.encrypting # Null) => sessionStore.encrypting = "0"

====
